---- MODULE Spec2Model ----
(***************************************************************************)
(* The pairing handler of session-marr (src/index.js, wrapped by           *)
(* src/pages/api/auth.js): one HTTP request drives one Baileys socket      *)
(* through its pairing handshake, waits for "connection open", zips the    *)
(* session directory and schedules a teardown of the socket.               *)
(*                                                                         *)
(* The repository holds a second copy of the handler, src/unnamed/part_000 *)
(* (the one that loads its dependencies lazily).  It runs the same steps   *)
(* and differs in two expressions: the reason of a close (its line 101)    *)
(* and the message of the catch block (its line 120).  The variable        *)
(* handler says which copy is deployed.  Line numbers in the comments are  *)
(* those of src/index.js unless they name part_000.                        *)
(*                                                                         *)
(* Every await of the handler is a position of pc; the code between two    *)
(* awaits runs to completion (Node's single thread) and is one action.     *)
(* The socket, the timers and the file system are the environment: they    *)
(* act through the actions ConnectionUpdate, CredsUpdate, SaveCredsDone,   *)
(* TimeoutFires, TeardownFires and LogoutSettles, and in SpecZip through   *)
(* RemoveData and RemoveDir.                                               *)
(*                                                                         *)
(* Four specifications: Spec (one request, every input and failure),       *)
(* SpecShared (the requests of Reqs side by side), SpecZip                 *)
(* (createZipFromFolder on every directory) and SpecFormat                 *)
(* (formatPairingCode on every code).                                      *)
(***************************************************************************)
EXTENDS Integers, Sequences, FiniteSets, TLC

(***************************************************************************)
(* Bounds of the model.                                                    *)
(***************************************************************************)
NumReqs == 2        \* requests the specification SpecShared runs side by side
MaxEvents == 3      \* connection.update events one socket emits
MaxCreds == 1       \* creds.update events one socket emits
MaxLen == 5         \* characters of a code given to formatPairingCode

Reqs == 1..NumReqs

(***************************************************************************)
(* JavaScript values, as far as the handler looks at them.                 *)
(***************************************************************************)
Undefined == [t |-> "undefined"]
Null == [t |-> "null"]
Str(s) == [t |-> "string", s |-> s]
Num(n) == [t |-> "number", n |-> n]
\* an object with the two fields line 119 reads
CodeObj(code, pairingCode) == [t |-> "object", code |-> code, pairingCode |-> pairingCode]

\* JavaScript truthiness: the conditions of lines 89, 119, 130, 146, 153, 165-167
Truthy(v) ==
  CASE v.t = "undefined" -> FALSE
    [] v.t = "null" -> FALSE
    [] v.t = "string" -> v.s # ""
    [] v.t = "number" -> v.n # 0
    [] OTHER -> TRUE

\* a || b
JsOr(a, b) == IF Truthy(a) THEN a ELSE b

(***************************************************************************)
(* formatPairingCode (src/index.js:73-80).                                 *)
(***************************************************************************)
\* the characters the dot of a regular expression does not match
LineTerminators == {"\n", "\r"}

\* the most characters one match of /.{1,4}/ takes
ChunkLen == 4

\* how many of the characters of s from position i on one match of .{1,max} takes
RECURSIVE Run(_, _, _)
Run(s, i, max) ==
  IF max = 0 \/ i > Len(s) \/ SubSeq(s, i, i) \in LineTerminators THEN 0
  ELSE 1 + Run(s, i + 1, max - 1)

\* the matches of /.{1,max}/g in s from position i on, left to right
RECURSIVE MatchFrom(_, _, _)
MatchFrom(s, i, max) ==
  IF i > Len(s) THEN <<>>
  ELSE IF Run(s, i, max) = 0 THEN MatchFrom(s, i + 1, max)
  ELSE <<SubSeq(s, i, i + Run(s, i, max) - 1)>> \o MatchFrom(s, i + Run(s, i, max), max)

\* code.match with chunks of up to five characters
MatchFive(s) == MatchFrom(s, 1, ChunkLen + 1)

\* code.match(/.{1,4}/g); the empty sequence stands for null (no match)
Match(s) == MatchFrom(s, 1, ChunkLen)

\* Array.prototype.join of a non-empty array of strings
RECURSIVE Join(_, _)
Join(parts, sep) ==
  IF Len(parts) = 1 THEN parts[1] ELSE parts[1] \o sep \o Join(Tail(parts), sep)

\* lines 73-80: a value without a method match, and a string without a match
\* (match returns null), make line 76 throw a TypeError and line 78 return the value
formatPairingCode(code) ==
  IF code.t # "string" THEN code
  ELSE IF Match(code.s) = <<>> THEN code
  ELSE Str(Join(Match(code.s), "-"))

\* what a console.log of a formatted code shows, with the code it was made of
LogLine(code) == [code |-> code, text |-> formatPairingCode(code)]

(***************************************************************************)
(* Configuration (src/index.js:33-40).                                     *)
(***************************************************************************)
DEFAULT_TIMEOUT_MS == 90000

config == [sessionPath |-> "/tmp/sessions", authTimeoutMs |-> DEFAULT_TIMEOUT_MS]
\* Error(name, message) as thrown by a library call or built by new Error(message)
Error(name, message) == [t |-> "error", name |-> name, message |-> message, output |-> Undefined]

\* a Boom error: an Error carrying the structured field output
Boom(message, statusCode) ==
  [t |-> "error", name |-> "Error", message |-> message,
   output |-> [t |-> "object", statusCode |-> statusCode]]

\* String(error): Error.prototype.toString
JsString(e) ==
  IF e.message = "" THEN e.name
  ELSE IF e.name = "" THEN e.message
  ELSE e.name \o ": " \o e.message

\* JSON.stringify of an error's output field
JSONstringify(output) == "{\"statusCode\":" \o ToString(output.statusCode) \o "}"

\* JSON.stringify of an error: its enumerable own properties, which name and message
\* of an Error are not
JSONstringifyError(e) ==
  IF e.output = Undefined THEN "{}"
  ELSE "{\"output\":" \o JSONstringify(e.output) \o "}"

(***************************************************************************)
(* The session directory: one path for every request (config.sessionPath). *)
(* A file holds <<writer, version>>: the socket that wrote it (0: a file   *)
(* that was there before any request of this run) and which of its         *)
(* credential updates it holds.                                            *)
(***************************************************************************)
Names == {"creds.json", "old", "pre-key-1.json"}
NoEntry == [kind |-> "none", data |-> <<0, 0>>]
File(writer, version) == [kind |-> "file", data |-> <<writer, version>>]
SubDir == [kind |-> "dir", data |-> <<0, 0>>]

EmptyEntries == [n \in Names |-> NoEntry]

\* the states the directory can be in when the process starts
InitDirs ==
  { [exists |-> FALSE, entries |-> EmptyEntries],
    [exists |-> TRUE, entries |-> EmptyEntries],
    [exists |-> TRUE, entries |-> [EmptyEntries EXCEPT !["creds.json"] = File(0, 1)]],
    [exists |-> TRUE, entries |-> [EmptyEntries EXCEPT !["creds.json"] = File(0, 1),
                                                      !["old"] = SubDir]] }

(***************************************************************************)
(* The state.                                                              *)
(***************************************************************************)
VARIABLES
  handler,      \* the copy of the handler that is deployed
  pc,           \* pc[r]: the await the handler of request r is suspended at
  req,          \* req[r]: method and resolved phone of the request
  sock,         \* sock[r]: the socket makeWASocket returned, its listeners and calls
  pairingCode,  \* pairingCode[r]: the handler's local variable (line 114)
  promise,      \* promise[r]: connectionPromise (line 139)
  timer,        \* timer[r]: the timeout of line 140
  responses,    \* responses[r]: what was written to res, in order
  teardown,     \* teardown[r]: the timer of line 186 and the task it runs
  nEvents,      \* nEvents[r]: connection.update events the socket has emitted
  nCreds,       \* nCreds[r]: creds.update events the socket has emitted
  saving,       \* saving[r]: versions whose saveCreds write is in flight
  dir,          \* the session directory
  zip,          \* zip[r]: createZipFromFolder's listing still to read and zip so far
  log,          \* log[r]: the codes the handler of r printed, as given and formatted
  first,        \* history: the first terminal occurrence of the handshake of r
  firstCode,    \* history: the first non-empty code offered to the handler of r
  stage         \* history: which stages of r ran, how the pairing-code request and
                \* the stages ended, whether a code came again after the first,
                \* the regular files createZipFromFolder found listed, the
                \* directory as fs.readdir found it, whether the directory
                \* changed while the listed names were being read, the first
                \* terminal event the socket emitted ("late": after the timer
                \* had fired), the saves started, the creds.update events
                \* emitted before the open outcome, and those of them whose
                \* save was in flight when the directory was read

vars == <<handler, pc, req, sock, pairingCode, promise, timer, responses, teardown,
          nEvents, nCreds, saving, dir, zip, log, first, firstCode, stage>>

NoSock == [made |-> FALSE, credsOn |-> FALSE, connOn |-> FALSE,
           logout |-> FALSE, end |-> FALSE]
NoRequest == [method |-> "", phone |-> Undefined]
Pending == [state |-> "pending", error |-> Undefined]
NoPromise == [state |-> "none", error |-> Undefined]
NoFirst == [kind |-> "none", update |-> Undefined, later |-> FALSE]
NoSnapshot == [exists |-> FALSE, entries |-> EmptyEntries]
NoStage == [loaded |-> FALSE, mkdir |-> FALSE, auth |-> FALSE, failed |-> "none",
            request |-> "none", again |-> FALSE, listed |-> {},
            snapshot |-> NoSnapshot, modified |-> FALSE, emitted |-> "none",
            started |-> 0, before |-> 0, inflight |-> {}]
NoZip == [listing |-> <<>>, files |-> {}]

Handlers == {"src/index.js", "src/unnamed/part_000"}

\* the state of the process when it starts, but for the directory
InitProcess ==
  /\ handler \in Handlers
  /\ pc = [r \in Reqs |-> "new"]
  /\ req = [r \in Reqs |-> NoRequest]
  /\ sock = [r \in Reqs |-> NoSock]
  /\ pairingCode = [r \in Reqs |-> Null]
  /\ promise = [r \in Reqs |-> NoPromise]
  /\ timer = [r \in Reqs |-> "none"]
  /\ responses = [r \in Reqs |-> <<>>]
  /\ teardown = [r \in Reqs |-> "none"]
  /\ nEvents = [r \in Reqs |-> 0]
  /\ nCreds = [r \in Reqs |-> 0]
  /\ saving = [r \in Reqs |-> <<>>]
  /\ zip = [r \in Reqs |-> NoZip]
  /\ log = [r \in Reqs |-> <<>>]
  /\ first = [r \in Reqs |-> NoFirst]
  /\ firstCode = [r \in Reqs |-> {}]
  /\ stage = [r \in Reqs |-> NoStage]

Init == InitProcess /\ dir \in InitDirs

(***************************************************************************)
(* Responses (res.status(..).json(..), res.status(200).send(zipBuffer)).   *)
(***************************************************************************)
Json(status, message) ==
  [status |-> status, type |-> "application/json", message |-> message, body |-> {}]
ZipResponse(files) ==
  [status |-> 200, type |-> "application/zip", message |-> "", body |-> files]

\* line 200, and line 120 of part_000: the message of the catch block
CatchMessage(error) ==
  IF handler = "src/index.js"
    THEN IF error.t = "string" THEN error.s
         ELSE IF error.message # "" THEN error.message
         ELSE "Terjadi kesalahan internal."
  ELSE IF Truthy(error) /\ error.t = "error" /\ error.message # "" THEN error.message
  ELSE "Terjadi kesalahan internal."

\* Catch with the status left at its default
CatchStatus200(error) == Json(200, CatchMessage(error))

\* lines 195-201: the catch block answers 500
Catch(error) == Json(500, CatchMessage(error))

\* line 88: query.phone || searchParams.get('phone')
ResolvePhone(queryPhone, urlPhone) == JsOr(queryPhone, urlPhone)

Pass == [status |-> 0, type |-> "", message |-> "", body |-> {}]

\* Validate without the check of line 89
ValidateNoPhone(method, phone) ==
  IF method # "GET" /\ method # "HEAD"
    THEN Json(405, "Method not allowed, use GET")
  ELSE Pass

\* lines 84-94: the response of a request that fails validation, Pass otherwise
Validate(method, phone) ==
  IF method # "GET" /\ method # "HEAD"
    THEN Json(405, "Method not allowed, use GET")
  ELSE IF ~Truthy(phone)
    THEN Json(400, "Nomor telepon diperlukan. Gunakan format: ?phone=62...")
  ELSE Pass

\* raw?.code, raw?.pairingCode
Field(raw, f) ==
  IF raw.t # "object" THEN Undefined
  ELSE IF f = "code" THEN raw.code ELSE raw.pairingCode

\* line 119
NormalizeRaw(raw) ==
  IF raw.t = "string" THEN raw
  ELSE JsOr(JsOr(Field(raw, "code"), Field(raw, "pairingCode")), Str(""))

\* lines 146-156: the listener's two captures, in order
CaptureQr(code, update) ==
  IF Truthy(update.qr) /\ ~Truthy(code) THEN update.qr ELSE code

\* CapturePairing without the guard !pairingCode of line 153
CapturePairingUnguarded(code, update) ==
  IF Truthy(JsOr(update.pairingCode, update.pairing))
    THEN JsOr(update.pairingCode, update.pairing)
  ELSE code

CapturePairing(code, update) ==
  IF Truthy(JsOr(update.pairingCode, update.pairing)) /\ ~Truthy(code)
    THEN JsOr(update.pairingCode, update.pairing)
  ELSE code

CaptureCode(code, update) == CapturePairing(CaptureQr(code, update), update)

\* lines 148 and 155: each capture prints the code it captured, formatted
CaptureLog(code, update) ==
  (IF CaptureQr(code, update) # code
     THEN <<LogLine(CaptureQr(code, update))>> ELSE <<>>)
  \o (IF CaptureCode(code, update) # CaptureQr(code, update)
        THEN <<LogLine(CaptureCode(code, update))>> ELSE <<>>)

\* lines 165-167 of src/index.js
CloseReasonIndex(update) ==
  LET ld == update.lastDisconnect IN
  IF Truthy(ld) /\ Truthy(ld.error) /\ Truthy(ld.error.output)
    THEN JSONstringify(ld.error.output)
  ELSE IF Truthy(ld) /\ Truthy(ld.error)
    THEN JsString(ld.error)
  ELSE "closed before open"

\* line 101 of part_000
CloseReasonLazy(update) ==
  LET ld == update.lastDisconnect IN
  IF Truthy(ld) /\ Truthy(ld.error)
    THEN JSONstringifyError(ld.error)
  ELSE "closed before open"

CloseReason(update) ==
  IF handler = "src/index.js" THEN CloseReasonIndex(update) ELSE CloseReasonLazy(update)

ClosedPrefix == "Koneksi ditutup sebelum berhasil. Reason: "

\* line 168
ClosedError(update) == Error("Error", ClosedPrefix \o CloseReason(update))

\* line 141
TimeoutError ==
  Error("Error", "Waktu habis. Koneksi tidak terbuka dalam "
                   \o ToString(config.authTimeoutMs \div 1000) \o " detik.")

\* an outcome kept in a plain variable: every call overwrites it
SettleOverwrite(p, state, error) ==
  IF p.state = "none" THEN p ELSE [state |-> state, error |-> error]

\* resolve() and reject(e) of a promise: the first call settles it, later calls do nothing
Settle(p, state, error) ==
  IF p.state = "pending" THEN [state |-> state, error |-> error] ELSE p

\* clearTimeout: cancels a timer that has not run yet
ClearTimeout(t) == IF t = "armed" THEN "cleared" ELSE t

\* ListenerTimer without the clearTimeout of line 160
ListenerTimerCloseOnly(t, update) ==
  IF update.connection = Str("close") THEN ClearTimeout(t) ELSE t

\* lines 158-169: what the listener does to the timer
ListenerTimer(t, update) ==
  IF update.connection = Str("open") \/ update.connection = Str("close")
    THEN ClearTimeout(t)
  ELSE t

\* a listener that resolves on close as on open
ListenerPromiseCloseResolves(p, update) ==
  IF update.connection \in {Str("open"), Str("close")}
    THEN Settle(p, "fulfilled", Undefined)
  ELSE p

\* lines 158-169: what the listener does to connectionPromise
ListenerPromise(p, update) ==
  IF update.connection = Str("open") THEN Settle(p, "fulfilled", Undefined)
  ELSE IF update.connection = Str("close") THEN Settle(p, "rejected", ClosedError(update))
  ELSE p

\* a timer callback that resolves instead of rejecting
TimeoutPromiseResolves(p) == Settle(p, "fulfilled", Undefined)

\* lines 140-142: the timer's callback
TimeoutPromise(p) == Settle(p, "rejected", TimeoutError)
(***************************************************************************)
(* Inputs.                                                                 *)
(***************************************************************************)
Methods == {"GET", "HEAD", "POST"}
Phone == Str("628123456789")
QueryPhones == {Undefined, Str(""), Phone}
UrlPhones == {Null, Str(""), Phone}

\* what sock.requestPairingCode(phone) can come back with
RequestResults ==
  { [kind |-> "value", raw |-> Str("ABCD1234")],
    [kind |-> "value", raw |-> CodeObj(Str("EFGH5678"), Undefined)],
    [kind |-> "value", raw |-> CodeObj(Undefined, Str("JKLM9012"))],
    [kind |-> "value", raw |-> CodeObj(Undefined, Undefined)],
    [kind |-> "value", raw |-> Undefined],
    [kind |-> "reject", raw |-> Undefined] }

Update(qr, code, pairing, connection, lastDisconnect) ==
  [qr |-> qr, pairingCode |-> code, pairing |-> pairing,
   connection |-> connection, lastDisconnect |-> lastDisconnect]

Disconnect(error) == [t |-> "object", error |-> error]

\* the connection.update events a socket can emit
Updates ==
  { Update(Str("2@qr"), Undefined, Undefined, Undefined, Undefined),
    Update(Undefined, Str("PAIR0001"), Undefined, Undefined, Undefined),
    Update(Undefined, Undefined, Str("PAIR0002"), Undefined, Undefined),
    Update(Str("2@qr2"), Str("PAIR0003"), Undefined, Undefined, Undefined),
    Update(Undefined, Undefined, Undefined, Str("connecting"), Undefined),
    Update(Undefined, Undefined, Undefined, Str("open"), Undefined),
    Update(Undefined, Undefined, Undefined, Str("close"), Undefined),
    Update(Undefined, Undefined, Undefined, Str("close"), Disconnect(Undefined)),
    Update(Undefined, Undefined, Undefined, Str("close"),
           Disconnect(Boom("Connection Failure", 401))),
    Update(Undefined, Undefined, Undefined, Str("close"),
           Disconnect(Error("Error", "Connection Closed"))) }

\* the codes an update or a pairing-code result carries
CodesOfUpdate(u) == {v \in {u.qr, u.pairingCode, u.pairing} : Truthy(v)}
CodesOfRaw(raw) ==
  IF raw.t = "string" THEN {v \in {raw} : Truthy(v)}
  ELSE {v \in {Field(raw, "code"), Field(raw, "pairingCode")} : Truthy(v)}

IsTerminal(u) == u.connection \in {Str("open"), Str("close")}

(***************************************************************************)
(* The handler, one action per stretch of code between two awaits.         *)
(***************************************************************************)
\* the catch block (lines 195-201): a stage of request r threw error; st is the
\* history of the stages with the failed one named
Fail(r, st, error) ==
  /\ responses' = [responses EXCEPT ![r] = Append(@, Catch(error))]
  /\ pc' = [pc EXCEPT ![r] = "done"]
  /\ stage' = [stage EXCEPT ![r] = st]

\* src/pages/api/auth.js:2-13 and src/index.js:82-97: the route loads the handler
\* and calls it; the handler validates and suspends at await ensureDir
AuthRoute(r, loaded, method, queryPhone, urlPhone) ==
  LET phone == ResolvePhone(queryPhone, urlPhone)
      answer == Validate(method, phone) IN
  /\ pc[r] = "new"
  /\ req' = [req EXCEPT ![r] = [method |-> method, phone |-> phone]]
  /\ stage' = [stage EXCEPT ![r].loaded = loaded]
  /\ IF ~loaded
       THEN /\ responses' = [responses EXCEPT
                               ![r] = Append(@, Json(500, "Failed to initialize handler."))]
            /\ pc' = [pc EXCEPT ![r] = "done"]
     ELSE IF answer # Pass
       THEN /\ responses' = [responses EXCEPT ![r] = Append(@, answer)]
            /\ pc' = [pc EXCEPT ![r] = "done"]
     ELSE /\ pc' = [pc EXCEPT ![r] = "ensureDir"]
          /\ UNCHANGED responses
  /\ UNCHANGED <<handler, log, sock, pairingCode, promise, timer, teardown, nEvents,
                 nCreds, saving, dir, zip, first, firstCode>>

\* lines 42-48 and 97-99: mkdir settles; EEXIST is swallowed, any other error is thrown
EnsureDir(r, result) ==
  /\ pc[r] = "ensureDir"
  /\ result = "EEXIST" => dir.exists
  /\ IF result \in {"ok", "EEXIST"}
       THEN /\ dir' = [dir EXCEPT !.exists = TRUE]
            /\ pc' = [pc EXCEPT ![r] = "loadAuth"]
            /\ stage' = [stage EXCEPT ![r].mkdir = TRUE]
            /\ UNCHANGED responses
     ELSE /\ Fail(r, [stage[r] EXCEPT !.failed = "ensureDir"],
                  Error("Error", "EACCES: permission denied, mkdir"))
          /\ UNCHANGED dir
  /\ UNCHANGED <<handler, log, req, sock, pairingCode, promise, timer, teardown,
                 nEvents, nCreds, saving, zip, first, firstCode>>

\* lines 99-100: useMultiFileAuthState settles
LoadAuthState(r, ok) ==
  /\ pc[r] = "loadAuth"
  /\ IF ok
       THEN /\ pc' = [pc EXCEPT ![r] = "fetchVersion"]
            /\ stage' = [stage EXCEPT ![r].auth = TRUE]
            /\ UNCHANGED responses
     ELSE Fail(r, [stage[r] EXCEPT !.failed = "useMultiFileAuthState"],
               Error("SyntaxError", "Unexpected token in JSON"))
  /\ UNCHANGED <<handler, log, dir, req, sock, pairingCode, promise, timer,
                 teardown, nEvents, nCreds, saving, zip, first, firstCode>>

\* lines 139-174: the executor of connectionPromise arms the timer and subscribes the
\* listener; the handler then suspends at await connectionPromise
BeginWait(r, s) ==
  /\ sock' = [sock EXCEPT ![r] = [s EXCEPT !.connOn = TRUE]]
  /\ promise' = [promise EXCEPT ![r] = Pending]
  /\ timer' = [timer EXCEPT ![r] = "armed"]
  /\ pc' = [pc EXCEPT ![r] = "waiting"]

\* a socket nobody subscribes saveCreds to
OnCredsUpdateNever(s) == s

\* line 111: sock.ev.on('creds.update', saveCreds)
OnCredsUpdate(s) == [s EXCEPT !.credsOn = TRUE]

\* the pairing-code request without its try/catch
RequestFatalRethrow(result) == result.kind = "reject"

\* lines 124-127: the catch around the pairing-code request swallows the failure
RequestFatal(result) == FALSE

\* lines 114-127: pairingCode after the pairing-code request
PairingCodeOf(result) ==
  IF result.kind = "value" THEN NormalizeRaw(result.raw) ELSE Null

\* lines 100-117 (to 174 when there is no await on the way): fetchLatestBaileysVersion
\* settles, the socket is made, saveCreds is registered, the pairing code is requested
MakeSocket(r, result, canRequest) ==
  LET made == OnCredsUpdate([NoSock EXCEPT !.made = TRUE]) IN
  /\ pc[r] = "fetchVersion"
  /\ CASE result = "versionFails" ->
            /\ Fail(r, [stage[r] EXCEPT !.failed = "fetchLatestBaileysVersion"],
                    Error("Error", "fetch failed"))
            /\ UNCHANGED <<sock, promise, timer>>
       [] result = "socketThrows" ->
            /\ Fail(r, [stage[r] EXCEPT !.failed = "makeWASocket"], Error("Error", ""))
            /\ UNCHANGED <<sock, promise, timer>>
       [] result = "ok" /\ canRequest = "present" ->
            /\ sock' = [sock EXCEPT ![r] = made]
            /\ pc' = [pc EXCEPT ![r] = "requestCode"]
            /\ UNCHANGED <<responses, stage, promise, timer>>
       [] result = "ok" /\ canRequest # "present" ->
            \* no such function (line 120), or it throws before returning a promise
            /\ BeginWait(r, made)
            /\ stage' = [stage EXCEPT ![r].request =
                           IF canRequest = "absent" THEN "unavailable" ELSE "failed"]
            /\ UNCHANGED responses
  /\ UNCHANGED <<handler, log, req, pairingCode, teardown, nEvents, nCreds, saving,
                 dir, zip, first, firstCode>>

\* lines 117-174: the pairing-code request settles (it returns, or throws or rejects)
PairingCodeReturns(r, result) ==
  /\ pc[r] = "requestCode"
  /\ IF RequestFatal(result)
       THEN /\ Fail(r, [stage[r] EXCEPT !.request = "failed", !.failed = "requestPairingCode"],
                    Error("Error", "Connection Closed"))
            /\ UNCHANGED <<sock, promise, timer, pairingCode, firstCode, log>>
     ELSE /\ pairingCode' = [pairingCode EXCEPT ![r] = PairingCodeOf(result)]
          \* lines 130-132; part_000 prints nothing here
          /\ log' = [log EXCEPT ![r] =
                       IF handler = "src/index.js" /\ Truthy(PairingCodeOf(result))
                         THEN Append(@, LogLine(PairingCodeOf(result)))
                       ELSE @]
          /\ BeginWait(r, sock[r])
          /\ firstCode' = [firstCode EXCEPT ![r] = CodesOfRaw(result.raw)]
          /\ stage' = [stage EXCEPT ![r].request =
                         IF result.kind = "reject" THEN "failed"
                         ELSE IF CodesOfRaw(result.raw) = {} THEN "nocode" ELSE "code"]
          /\ UNCHANGED responses
  /\ UNCHANGED <<handler, req, teardown, nEvents, nCreds, saving, dir, zip,
                 first>>
SockAlive(r) == sock[r].made /\ ~sock[r].end

\* history: the first terminal event the socket of r has emitted, u included
Emitted(r, u) ==
  IF ~IsTerminal(u) \/ stage[r].emitted # "none" THEN stage[r].emitted
  ELSE IF timer[r] = "fired" THEN "late"
  ELSE u.connection.s

\* lines 144-170: the listener of request r is called with the update u
Listener(r, u) ==
  /\ pairingCode' = [pairingCode EXCEPT ![r] = CaptureCode(@, u)]
  /\ log' = [log EXCEPT ![r] = @ \o CaptureLog(pairingCode[r], u)]
  /\ timer' = [timer EXCEPT ![r] = ListenerTimer(@, u)]
  /\ promise' = [promise EXCEPT ![r] = ListenerPromise(@, u)]
  /\ first' = [first EXCEPT ![r] =
                 IF ~IsTerminal(u) THEN @
                 ELSE IF @.kind = "none"
                   THEN [kind |-> u.connection.s, update |-> u, later |-> FALSE]
                 ELSE [@ EXCEPT !.later = TRUE]]
  /\ firstCode' = [firstCode EXCEPT ![r] = IF @ = {} THEN CodesOfUpdate(u) ELSE @]
  /\ stage' = [stage EXCEPT ![r].again =
                            @ \/ (firstCode[r] # {} /\ CodesOfUpdate(u) # {}),
                          ![r].emitted = Emitted(r, u),
                          ![r].before =
                            IF first[r].kind = "none" /\ u.connection = Str("open")
                              THEN nCreds[r] ELSE @]

\* lines 144-170: the socket emits a connection.update event; the listener, if it is
\* subscribed by now, captures a code and settles the promise
ConnectionUpdate(r, u) ==
  /\ SockAlive(r)
  /\ nEvents[r] < MaxEvents
  /\ nEvents' = [nEvents EXCEPT ![r] = @ + 1]
  /\ IF sock[r].connOn
       THEN Listener(r, u)
     \* nobody listens yet: the event is gone
     ELSE /\ stage' = [stage EXCEPT ![r].emitted = Emitted(r, u)]
          /\ UNCHANGED <<pairingCode, log, timer, promise, first, firstCode>>
  /\ UNCHANGED <<handler, pc, req, sock, responses, teardown, nCreds, saving,
                 dir, zip>>

\* lines 140-142: timeoutMs have passed and the timer was not cleared
TimeoutFires(r) ==
  /\ timer[r] = "armed"
  /\ timer' = [timer EXCEPT ![r] = "fired"]
  /\ promise' = [promise EXCEPT ![r] = TimeoutPromise(@)]
  /\ first' = [first EXCEPT ![r] =
                 IF @.kind = "none"
                   THEN [kind |-> "timeout", update |-> Undefined, later |-> FALSE]
                 ELSE @]
  /\ UNCHANGED <<handler, log, pc, req, sock, pairingCode, responses, teardown,
                 nEvents, nCreds, saving, dir, zip, firstCode, stage>>

\* lines 174-178 and 195-201: await connectionPromise continues, into createZipFromFolder
\* (suspended at fs.readdir) or into the catch block
Resume(r) ==
  /\ pc[r] = "waiting"
  /\ promise[r].state \in {"fulfilled", "rejected"}
  /\ IF promise[r].state = "fulfilled"
       THEN /\ pc' = [pc EXCEPT ![r] = "readdir"]
            /\ zip' = [zip EXCEPT ![r] = NoZip]
            /\ UNCHANGED <<responses, stage>>
     ELSE /\ Fail(r, [stage[r] EXCEPT !.failed = "connectionPromise"], promise[r].error)
          /\ UNCHANGED zip
  /\ UNCHANGED <<handler, log, req, sock, pairingCode, promise, timer, teardown,
                 nEvents, nCreds, saving, dir, first, firstCode>>

\* history: the saves of request r that are in flight and were started by a
\* creds.update emitted before the open outcome
InFlightBefore(r) ==
  {saving[r][i] : i \in 1..Len(saving[r])} \cap 1..stage[r].before

\* the order fs.readdir lists the names in
NameOrder == <<"creds.json", "old", "pre-key-1.json">>

Present(n) == dir.entries[n].kind # "none"

\* lines 50-53 and 63-70: fs.readdir settles
ZipReaddir(r, result) ==
  /\ pc[r] = "readdir"
  /\ IF result = "EACCES"
       THEN /\ Fail(r, [stage[r] EXCEPT !.failed = "createZipFromFolder"],
                 Error("Error", "EACCES: permission denied, scandir"))
            /\ UNCHANGED zip
     ELSE IF ~dir.exists
       \* ENOENT: line 65 returns the zip as it is, empty
       THEN /\ pc' = [pc EXCEPT ![r] = "generate"]
            /\ UNCHANGED <<zip, responses, stage>>
     ELSE /\ zip' = [zip EXCEPT ![r].listing = SelectSeq(NameOrder, Present)]
          /\ pc' = [pc EXCEPT ![r] =
                      IF SelectSeq(NameOrder, Present) = <<>> THEN "generate" ELSE "stat"]
          /\ stage' = [stage EXCEPT ![r].listed =
                                      {n \in Names : dir.entries[n].kind = "file"},
                                    ![r].snapshot = dir,
                                    ![r].inflight = @ \cup InFlightBefore(r)]
          /\ UNCHANGED responses
  /\ UNCHANGED <<handler, log, req, sock, pairingCode, promise, timer, teardown,
                 nEvents, nCreds, saving, dir, first, firstCode>>

\* a loop that adds nothing to the zip
ZipAddNothing(files, name, entry) == files

\* ZipAdd without the test of line 57
ZipAddAll(files, name, entry) == files \cup {<<name, entry.data>>}

\* ZipAdd with the test of line 57 inverted
ZipAddInverted(files, name, entry) ==
  IF entry.kind # "file" THEN files \cup {<<name, entry.data>>} ELSE files

\* lines 54-61: what one round of the loop adds to the zip
ZipAdd(files, name, entry) ==
  IF entry.kind = "file" THEN files \cup {<<name, entry.data>>} ELSE files

\* lines 54-70: fs.stat and fs.readFile of the next listed name settle
ZipEntry(r, result) ==
  LET name == Head(zip[r].listing)
      entry == dir.entries[name]
      rest == Tail(zip[r].listing) IN
  /\ pc[r] = "stat"
  /\ IF result = "EIO"
       THEN /\ Fail(r, [stage[r] EXCEPT !.failed = "createZipFromFolder"],
                 Error("Error", "EIO: i/o error, read"))
            /\ UNCHANGED zip
     ELSE IF entry.kind = "none"
       \* ENOENT on the file: line 65 returns the zip as far as it got
       THEN /\ pc' = [pc EXCEPT ![r] = "generate"]
            /\ UNCHANGED <<zip, responses, stage>>
     ELSE /\ zip' = [zip EXCEPT ![r] = [listing |-> rest,
                                       files |-> ZipAdd(@.files, name, entry)]]
          /\ pc' = [pc EXCEPT ![r] = IF rest = <<>> THEN "generate" ELSE "stat"]
          /\ stage' = [stage EXCEPT ![r].inflight = @ \cup InFlightBefore(r)]
          /\ UNCHANGED responses
  /\ UNCHANGED <<handler, log, req, sock, pairingCode, promise, timer, teardown,
                 nEvents, nCreds, saving, dir, first, firstCode>>

\* lines 178-193: zip.generateAsync settles, the zip is sent and the teardown scheduled
SendZip(r) ==
  /\ pc[r] = "generate"
  /\ responses' = [responses EXCEPT ![r] = Append(@, ZipResponse(zip[r].files))]
  /\ teardown' = [teardown EXCEPT ![r] = "scheduled"]
  /\ pc' = [pc EXCEPT ![r] = "done"]
  /\ UNCHANGED <<handler, log, req, sock, pairingCode, promise, timer, nEvents,
                 nCreds, saving, dir, zip, first, firstCode, stage>>

\* lines 186-188: a second after the response the teardown calls sock.logout()
TeardownFires(r, throws) ==
  /\ teardown[r] = "scheduled"
  /\ sock' = [sock EXCEPT ![r].logout = TRUE]
  \* a logout that throws is caught at line 190: sock.end is not reached
  /\ teardown' = [teardown EXCEPT ![r] = IF throws THEN "done" ELSE "logout"]
  /\ UNCHANGED <<handler, log, pc, req, pairingCode, promise, timer, responses,
                 nEvents, nCreds, saving, dir, zip, first, firstCode, stage>>

\* what a socket that is ended without an error emits while it ends
EndUpdate == Update(Undefined, Undefined, Undefined, Str("close"), Disconnect(Undefined))

\* lines 188-189: logout settles (a rejection is swallowed) and sock.end is called;
\* a socket that was still connected emits a close, which the listener of line 144,
\* never unsubscribed, receives
LogoutSettles(r, closes) ==
  /\ teardown[r] = "logout"
  /\ sock' = [sock EXCEPT ![r].end = TRUE]
  /\ teardown' = [teardown EXCEPT ![r] = "done"]
  /\ IF closes
       THEN Listener(r, EndUpdate)
     ELSE UNCHANGED <<pairingCode, log, timer, promise, first, firstCode, stage>>
  /\ UNCHANGED <<handler, pc, req, responses, nEvents, nCreds, saving, dir, zip>>

\* line 111: the socket emits creds.update and saveCreds starts writing creds.json
CredsUpdate(r) ==
  /\ SockAlive(r)
  /\ nCreds[r] < MaxCreds
  /\ nCreds' = [nCreds EXCEPT ![r] = @ + 1]
  /\ saving' = [saving EXCEPT ![r] =
                  IF sock[r].credsOn THEN Append(@, nCreds[r] + 1) ELSE @]
  /\ stage' = [stage EXCEPT ![r].started = IF sock[r].credsOn THEN @ + 1 ELSE @]
  /\ UNCHANGED <<handler, log, pc, req, sock, pairingCode, promise, timer,
                 responses, teardown, nEvents, dir, zip, first, firstCode>>

\* history: the directory changes; a request that is between its fs.readdir and its
\* last fs.stat/fs.readFile sees a directory modified under its hands
Modified ==
  [q \in Reqs |-> IF pc[q] = "stat" THEN [stage[q] EXCEPT !.modified = TRUE]
                                    ELSE stage[q]]

\* line 111: a write of saveCreds reaches the directory
SaveCredsDone(r) ==
  /\ saving[r] # <<>>
  /\ dir' = [dir EXCEPT !.entries["creds.json"] = File(r, Head(saving[r]))]
  /\ saving' = [saving EXCEPT ![r] = Tail(@)]
  /\ stage' = Modified
  /\ UNCHANGED <<handler, log, pc, req, sock, pairingCode, promise, timer,
                 responses, teardown, nEvents, nCreds, zip, first, firstCode>>

\* fs.unlink by another party (the key store of useMultiFileAuthState removes the
\* file of a key that is set to null): a regular file leaves the directory
RemoveData(n) ==
  /\ dir.exists /\ dir.entries[n].kind = "file"
  /\ dir' = [dir EXCEPT !.entries[n] = NoEntry]
  /\ stage' = Modified
  /\ UNCHANGED <<handler, log, pc, req, sock, pairingCode, promise, timer,
                 responses, teardown, nEvents, nCreds, saving, zip, first,
                 firstCode>>

\* the session directory is removed with all it holds (it lies under /tmp)
RemoveDir ==
  /\ dir.exists
  /\ dir' = NoSnapshot
  /\ stage' = Modified
  /\ UNCHANGED <<handler, log, pc, req, sock, pairingCode, promise, timer,
                 responses, teardown, nEvents, nCreds, saving, zip, first,
                 firstCode>>

(***************************************************************************)
(* Spec: one request, every input and every failure.                       *)
(***************************************************************************)
Step(r) ==
  \/ \E loaded \in BOOLEAN, m \in Methods, q \in QueryPhones, u \in UrlPhones :
       AuthRoute(r, loaded, m, q, u)
  \/ \E result \in {"ok", "EEXIST", "EACCES"} : EnsureDir(r, result)
  \/ \E ok \in BOOLEAN : LoadAuthState(r, ok)
  \/ \E result \in {"ok", "versionFails", "socketThrows"},
        canRequest \in {"present", "absent", "throws"} : MakeSocket(r, result, canRequest)
  \/ \E result \in RequestResults : PairingCodeReturns(r, result)
  \/ \E u \in Updates : ConnectionUpdate(r, u)
  \/ TimeoutFires(r)
  \/ Resume(r)
  \/ \E result \in {"ok", "EACCES"} : ZipReaddir(r, result)
  \/ \E result \in {"ok", "EIO"} : ZipEntry(r, result)
  \/ SendZip(r)
  \/ \E throws \in BOOLEAN : TeardownFires(r, throws)
  \/ \E closes \in BOOLEAN : LogoutSettles(r, closes)
  \/ CredsUpdate(r)
  \/ SaveCredsDone(r)

Next == Step(1)

Spec == Init /\ [][Next]_vars

(***************************************************************************)
(* SpecShared: every request of Reqs, side by side on the one session      *)
(* directory, each with a valid phone, no failing stage and a socket whose *)
(* connection opens once.  Requests are numbered in the order they arrive. *)
(* The directory starts without files, so every file found in it was       *)
(* written by a socket of one of these requests.  Each request is followed *)
(* up to its response; its socket emits one creds.update, at any moment    *)
(* from makeWASocket on.                                                   *)
(***************************************************************************)
OpenUpdate == Update(Undefined, Undefined, Undefined, Str("open"), Undefined)

InitShared == Init /\ dir.entries = EmptyEntries

StepShared(r) ==
  \/ (\A q \in Reqs : q < r => pc[q] # "new") /\ AuthRoute(r, TRUE, "GET", Phone, Null)
  \/ EnsureDir(r, "ok")
  \/ LoadAuthState(r, TRUE)
  \/ MakeSocket(r, "ok", "absent")
  \/ nEvents[r] = 0 /\ ConnectionUpdate(r, OpenUpdate)
  \/ Resume(r)
  \/ ZipReaddir(r, "ok")
  \/ ZipEntry(r, "ok")
  \/ SendZip(r)
  \/ nCreds[r] = 0 /\ CredsUpdate(r)
  \/ SaveCredsDone(r)

NextShared == \E r \in Reqs : StepShared(r)

SpecShared == InitShared /\ [][NextShared]_vars

(***************************************************************************)
(* SpecZip: createZipFromFolder on every directory of Dirs.  One request   *)
(* with a valid phone is taken to its open connection and into             *)
(* createZipFromFolder, which meets every outcome of its file system       *)
(* calls; meanwhile files, and the directory itself, may be removed.       *)
(***************************************************************************)
Contents == {NoEntry, File(0, 1), File(0, 2), SubDir}

\* the directories over Names, and no directory at all
Dirs ==
  {[exists |-> TRUE, entries |-> e] : e \in [Names -> Contents]} \cup {NoSnapshot}

InitZip == InitProcess /\ dir \in Dirs

NextZip ==
  \/ AuthRoute(1, TRUE, "GET", Phone, Null)
  \/ EnsureDir(1, "ok")
  \/ LoadAuthState(1, TRUE)
  \/ MakeSocket(1, "ok", "absent")
  \/ nEvents[1] = 0 /\ ConnectionUpdate(1, OpenUpdate)
  \/ Resume(1)
  \/ \E result \in {"ok", "EACCES"} : ZipReaddir(1, result)
  \/ \E result \in {"ok", "EIO"} : ZipEntry(1, result)
  \/ SendZip(1)
  \/ \E n \in Names : RemoveData(n)
  \/ RemoveDir

SpecZip == InitZip /\ [][NextZip]_vars

(***************************************************************************)
(* SpecFormat: formatPairingCode on every value of Codes.  The step is a   *)
(* call formatPairingCode(code) whose result is printed, as in lines 131,  *)
(* 148 and 155.                                                            *)
(***************************************************************************)
Alphabet == {"A", "7", "-", "\n"}

RECURSIVE StringsOfLen(_)
StringsOfLen(n) ==
  IF n = 0 THEN {""} ELSE {s \o c : s \in StringsOfLen(n - 1), c \in Alphabet}

Codes ==
  {Str(s) : s \in UNION {StringsOfLen(n) : n \in 0..MaxLen}}
    \cup {Undefined, Null, Num(12345678), CodeObj(Str("ABCD1234"), Undefined)}

InitFormat == Init

\* console.log(... formatPairingCode(code))
PrintCode(r, code) ==
  /\ log[r] = <<>>
  /\ log' = [log EXCEPT ![r] = Append(@, LogLine(code))]
  /\ UNCHANGED <<handler, pc, req, sock, pairingCode, promise, timer, responses,
                 teardown, nEvents, nCreds, saving, dir, zip, first, firstCode, stage>>

NextFormat == \E code \in Codes : PrintCode(1, code)

SpecFormat == InitFormat /\ [][NextFormat]_vars

(***************************************************************************)
(* The claims.                                                             *)
(***************************************************************************)
Settled(r) == promise[r].state \in {"fulfilled", "rejected"}

\* the outcome of the handshake of r, read off connectionPromise
Outcome(r) ==
  IF promise[r].state = "fulfilled" THEN "open"
  ELSE IF promise[r].state = "rejected" /\ promise[r].error = TimeoutError THEN "timeout"
  ELSE IF promise[r].state = "rejected" THEN "close"
  ELSE "none"

Answered(r) == pc[r] = "done" /\ Len(responses[r]) = 1

\* the reason the claims expect of a close event
ExpectedReason(u) ==
  LET ld == u.lastDisconnect IN
  IF ld = Undefined \/ ld.error = Undefined THEN "closed before open"
  ELSE IF ld.error.output # Undefined THEN JSONstringify(ld.error.output)
  ELSE JsString(ld.error)

TimeoutMessage == "Waktu habis. Koneksi tidak terbuka dalam 90 detik."

\* C1: the first of open, close and timer expiry fixes the outcome of the session;
\* once the promise is settled no later event changes it, and once the response
\* chosen from it is written no later event changes or repeats it.
C1_FirstTerminalWins ==
  /\ [](\A r \in Reqs : Outcome(r) = first[r].kind)
  /\ [][\A r \in Reqs : Settled(r) => promise'[r] = promise[r]]_vars
  /\ [][\A r \in Reqs : responses[r] # <<>> => responses'[r] = responses[r]]_vars
  /\ [](\A r \in Reqs : pc[r] = "done" /\ first[r].kind # "none" =>
          /\ Len(responses[r]) = 1
          /\ first[r].kind = "timeout" => responses[r][1] = Json(500, TimeoutMessage)
          /\ first[r].kind = "close" =>
               responses[r][1] = Json(500, promise[r].error.message)
          /\ first[r].kind = "open" =>
               \/ responses[r][1].status = 200
               \/ stage[r].failed = "createZipFromFolder")

\* an open outcome was answered 200 and a later open or close reached the listener
C1_Witness ==
  /\ first[1].kind = "open" /\ first[1].later
  /\ Answered(1) /\ responses[1][1].status = 200

\* C2: after an open that came before the timeout and before any close, the
\* handshake is resolved and the timer is cleared, in every later state: the
\* timeout can no longer fire.
C2_OpenCancelsTimer ==
  \A r \in Reqs : first[r].kind = "open" =>
    /\ promise[r].state = "fulfilled"
    /\ timer[r] = "cleared"
    /\ ~ENABLED TimeoutFires(r)

C2_Witness == first[1].kind = "open" /\ timer[1] = "cleared" /\ pc[1] = "done"

\* C3: every session that reached a terminal state and was answered has its
\* teardown (logout, then end) scheduled.
C3_CleanupAlways ==
  \A r \in Reqs : pc[r] = "done" /\ first[r].kind # "none" => teardown[r] # "none"

Contains(s, sub) ==
  \E i \in 1..(Len(s) - Len(sub) + 1) : SubSeq(s, i, i + Len(sub) - 1) = sub

\* C4: a close that is the first terminal occurrence rejects the handshake with a
\* non-empty reason (the JSON of error.output if there is one, else String(error),
\* else "closed before open"), clears the timer, and is answered 500 with a
\* message that contains the reason.
C4_CloseRejects ==
  \A r \in Reqs : first[r].kind = "close" =>
    LET reason == ExpectedReason(first[r].update) IN
    /\ reason # ""
    /\ promise[r].state = "rejected"
    /\ Contains(promise[r].error.message, reason)
    /\ timer[r] = "cleared"
    /\ pc[r] = "done" =>
         /\ Len(responses[r]) = 1
         /\ responses[r][1].status = 500
         /\ Contains(responses[r][1].message, reason)

\* the same for the copy src/index.js alone
C4_CloseRejectsIndex == handler = "src/index.js" => C4_CloseRejects

\* a close carrying a Boom error was answered
C4_Witness ==
  /\ first[1].kind = "close"
  /\ first[1].update.lastDisconnect = Disconnect(Boom("Connection Failure", 401))
  /\ Answered(1)

\* C5: when the timer expires before any open or close, the handshake is rejected
\* with the timeout error, createZipFromFolder is never entered, and the request
\* is answered 500 with the timeout message.
C5_TimeoutRejects ==
  \A r \in Reqs : first[r].kind = "timeout" =>
    /\ promise[r].state = "rejected"
    /\ promise[r].error.message = TimeoutMessage
    /\ pc[r] \in {"waiting", "done"}
    /\ zip[r] = NoZip
    /\ pc[r] = "done" => responses[r] = <<Json(500, TimeoutMessage)>>

C5_Witness == first[1].kind = "timeout" /\ Answered(1) /\ timer[1] = "fired"

\* C6: a captured (non-empty) pairing code never changes again, and it is a code
\* of the first code-bearing result or event the handler received.
C6_CodeNeverOverwritten ==
  /\ [][\A r \in Reqs : Truthy(pairingCode[r]) => pairingCode'[r] = pairingCode[r]]_vars
  /\ [](\A r \in Reqs : Truthy(pairingCode[r]) => pairingCode[r] \in firstCode[r])
  /\ [](\A r \in Reqs : firstCode[r] # {} => Truthy(pairingCode[r]))

\* a code from the pairing-code request survived a code-bearing event
C6_Witness ==
  /\ pairingCode[1] = Str("ABCD1234")
  /\ stage[1].request = "code"
  /\ stage[1].again

\* C7: a request that passed validation is answered exactly once when its handler
\* ends, never more; 200 goes only with an open outcome and the zip that was built,
\* every failed stage is answered by one JSON 500.
C7_OneResponse ==
  \A r \in Reqs : stage[r].loaded /\ req[r].method \in {"GET", "HEAD"}
                    /\ req[r].phone = Phone =>
    /\ Len(responses[r]) <= 1
    /\ pc[r] = "done" <=> Len(responses[r]) = 1
    /\ \A i \in 1..Len(responses[r]) :
         /\ responses[r][i].status \in {200, 500}
         /\ responses[r][i].status = 200 <=>
              first[r].kind = "open" /\ stage[r].failed = "none"
         /\ responses[r][i].status = 200 =>
              responses[r][i] = ZipResponse(zip[r].files)
         /\ responses[r][i].status = 500 =>
              /\ responses[r][i].type = "application/json"
              /\ responses[r][i].message # ""
    /\ stage[r].failed # "none" => pc[r] = "done"

\* the archive failed after an open outcome and the request was answered 500
C7_Witness ==
  /\ stage[1].failed = "createZipFromFolder"
  /\ first[1].kind = "open"
  /\ Answered(1) /\ responses[1][1].status = 500

NoSideEffects(r) ==
  /\ pc[r] = "done"
  /\ ~stage[r].mkdir /\ ~stage[r].auth
  /\ sock[r] = NoSock
  /\ promise[r] = NoPromise /\ timer[r] = "none"
  /\ zip[r] = NoZip /\ teardown[r] = "none"

\* C8: a request with another method than GET or HEAD is answered 405, a GET or
\* HEAD request without a phone 400, and neither touches the directory, the
\* credential state, a socket, a timer, the zip or the teardown.
C8_ValidationNoSideEffects ==
  \A r \in Reqs : stage[r].loaded =>
    /\ req[r].method \notin {"GET", "HEAD"} =>
         /\ responses[r] = <<Json(405, "Method not allowed, use GET")>>
         /\ NoSideEffects(r)
    /\ req[r].method \in {"GET", "HEAD"} /\ req[r].phone \in {Undefined, Null, Str("")} =>
         /\ responses[r] =
              <<Json(400, "Nomor telepon diperlukan. Gunakan format: ?phone=62...")>>
         /\ NoSideEffects(r)

C8_Witness ==
  /\ stage[1].loaded /\ req[1].method = "HEAD" /\ req[1].phone = Str("")
  /\ responses[1] # <<>>

\* C9: when the pairing-code request is unavailable, fails or returns no code, the
\* handler still subscribes the listener and arms the timer, a code of a later
\* event is captured, and an open outcome whose archive is built is answered 200.
C9_RequestFailureNotFatal ==
  \A r \in Reqs : stage[r].request \in {"unavailable", "failed", "nocode"} =>
    /\ stage[r].failed \in {"none", "connectionPromise", "createZipFromFolder"}
    /\ sock[r].connOn
    /\ timer[r] # "none" /\ promise[r].state # "none"
    /\ firstCode[r] # {} => pairingCode[r] \in firstCode[r]
    /\ pc[r] = "done" /\ first[r].kind = "open" /\ stage[r].failed = "none" =>
         /\ Len(responses[r]) = 1
         /\ responses[r][1].status = 200

\* the request failed, a later event supplied the code and the open was answered 200
C9_Witness ==
  /\ stage[1].request = "failed"
  /\ pairingCode[1] = Str("PAIR0002")
  /\ Answered(1) /\ responses[1][1].status = 200
ZipNames(files) == {f[1] : f \in files}

RegularFiles(d) == {n \in Names : d.entries[n].kind = "file"}
SubDirs(d) == {n \in Names : d.entries[n].kind = "dir"}

\* the archive createZipFromFolder has to return for the directory d
ArchiveOf(d) == {<<n, d.entries[n].data>> : n \in RegularFiles(d)}

\* createZipFromFolder of request r has returned its archive
Built(r) == pc[r] = "generate" \/ (pc[r] = "done" /\ teardown[r] # "none")

\* C11: for a directory that exists and is not modified while it is read,
\* createZipFromFolder returns an archive with exactly one entry per regular file,
\* under the file's name and with the file's content, and no entry for a
\* subdirectory; the 200 response carries that archive.
C11_ArchiveOfRegularFiles ==
  \A r \in Reqs : Built(r) /\ stage[r].snapshot.exists /\ ~stage[r].modified =>
    LET d == stage[r].snapshot IN
    /\ zip[r].files = ArchiveOf(d)
    /\ Cardinality(zip[r].files) = Cardinality(RegularFiles(d))
    /\ ZipNames(zip[r].files) \cap SubDirs(d) = {}
    /\ pc[r] = "done" => responses[r] = <<ZipResponse(ArchiveOf(d))>>

\* a directory of two regular files of different content and one subdirectory was
\* archived and sent
C11_Witness ==
  /\ Answered(1) /\ ~stage[1].modified
  /\ stage[1].snapshot.exists
  /\ Cardinality(RegularFiles(stage[1].snapshot)) = 2
  /\ Cardinality(SubDirs(stage[1].snapshot)) = 1
  /\ responses[1][1].body = {<<"creds.json", <<0, 1>>>>, <<"pre-key-1.json", <<0, 2>>>>}

\* C12: createZipFromFolder returns an empty archive for a directory that does not
\* exist; for a directory that exists it fails or returns an archive holding every
\* regular file of its listing, also when a listed file is removed before it is
\* read.
C12_MissingDirOnly ==
  \A r \in Reqs : Built(r) =>
    /\ ~stage[r].snapshot.exists => zip[r].files = {}
    /\ stage[r].snapshot.exists /\ dir.exists =>
         ZipNames(zip[r].files) = stage[r].listed

Char(s, i) == SubSeq(s, i, i)

NoLineTerminator(s) == \A i \in 1..Len(s) : Char(s, i) \notin LineTerminators

\* the number of chunks of a string of L characters
NumChunks(L) == (L + 3) \div 4

\* text is code cut into consecutive chunks of four characters, the last of one to
\* four, with one hyphen between two chunks
Chunked(code, text) ==
  /\ Len(text) = Len(code) + NumChunks(Len(code)) - 1
  /\ \A k \in 1..Len(code) : Char(text, k + (k - 1) \div 4) = Char(code, k)
  /\ \A j \in 1..(NumChunks(Len(code)) - 1) : Char(text, 5 * j) = "-"

\* C13: formatPairingCode of a string without line terminators is the string cut
\* into chunks of four characters (the last of one to four) joined by hyphens, of
\* the empty string the empty string, of a value that is no string the value itself.
C13_FormatChunks ==
  \A r \in Reqs : \A i \in 1..Len(log[r]) :
    LET code == log[r][i].code
        text == log[r][i].text IN
    /\ code.t # "string" => text = code
    /\ code.t = "string" /\ code.s = "" => text = Str("")
    /\ code.t = "string" /\ code.s # "" /\ NoLineTerminator(code.s) =>
         text.t = "string" /\ Chunked(code.s, text.s)

\* a code of five characters, one of them a hyphen, was formatted
C13_Witness == log[1] = <<[code |-> Str("A-77A"), text |-> Str("A-77-A")]>>

\* C14: the first terminal event the socket emits before the timeout has elapsed
\* fixes the outcome, whenever it is emitted: after an open the handshake is
\* resolved and the request answered 200 (unless the archive fails), after a close
\* it is rejected as closed.
C14_FirstEmittedWins ==
  \A r \in Reqs :
    /\ stage[r].emitted = "open" =>
         /\ Outcome(r) = "open"
         /\ pc[r] = "done" =>
              responses[r][1].status = 200 \/ stage[r].failed = "createZipFromFolder"
    /\ stage[r].emitted = "close" => Outcome(r) = "close"

\* C15: while the handler waits for the handshake (for the pairing-code request or
\* for connectionPromise) it can go on without the socket doing anything: the timer
\* is armed and can fire, or the promise is settled and the handler resumes.
C15_HandshakeEnds ==
  \A r \in Reqs : pc[r] \in {"requestCode", "waiting"} =>
    ENABLED TimeoutFires(r) \/ ENABLED Resume(r)

\* createZipFromFolder of request r has been entered
Archiving(r) ==
  \/ pc[r] \in {"readdir", "stat", "generate"}
  \/ zip[r] # NoZip
  \/ stage[r].snapshot.exists
  \/ stage[r].failed = "createZipFromFolder"

Sent200(r) == Len(responses[r]) = 1 /\ responses[r][1].status = 200

\* C16: the stages run in the order ensureDir, open outcome, createZipFromFolder,
\* 200 response, teardown: the directory is read for the archive only after
\* ensureDir and the open outcome, never after a close or timeout outcome; the 200
\* response comes after the archive; logout and end are called only after it.
C16_StageOrder ==
  \A r \in Reqs :
    /\ stage[r].auth \/ sock[r].made => stage[r].mkdir
    /\ promise[r].state # "none" => stage[r].mkdir /\ sock[r].made
    /\ Archiving(r) => first[r].kind = "open" /\ stage[r].mkdir
    /\ first[r].kind \in {"close", "timeout"} => ~Archiving(r) /\ ~Sent200(r)
    /\ Sent200(r) => Archiving(r) /\ pc[r] = "done"
    /\ teardown[r] # "none" \/ sock[r].logout \/ sock[r].end => Sent200(r)

\* a request went through every stage to the end of its teardown
C16_Witness ==
  /\ Sent200(1) /\ teardown[1] = "done"
  /\ sock[1].logout /\ sock[1].end
  /\ stage[1].snapshot.exists

\* C17: the teardown calls logout and then end, also when logout fails; what it
\* does, the close that end provokes on the listener included, leaves the one 200
\* response and the outcome as they were.
C17_TeardownContained ==
  \A r \in Reqs :
    /\ sock[r].end => sock[r].logout
    /\ teardown[r] = "done" => sock[r].logout /\ sock[r].end
    /\ teardown[r] # "none" =>
         /\ responses[r] = <<ZipResponse(zip[r].files)>>
         /\ pc[r] = "done"
         /\ promise[r].state = "fulfilled"

\* C18: saveCreds is subscribed from the moment the socket exists, before the
\* pairing-code request and before the connection.update listener, so every
\* creds.update the socket emits starts a save.
C18_EveryUpdateSaved ==
  \A r \in Reqs :
    /\ sock[r].made => sock[r].credsOn
    /\ sock[r].connOn \/ pc[r] = "requestCode" => sock[r].credsOn
    /\ stage[r].started = nCreds[r]
    /\ Len(saving[r]) <= stage[r].started

\* a creds.update emitted while the pairing-code request is pending started a save
C18_Witness == pc[1] = "requestCode" /\ nCreds[1] = 1 /\ saving[1] = <<1>>

\* the versions of creds.json that the socket of r wrote, in an archive
OwnVersions(r, files) == {f[2][2] : f \in {g \in files : g[1] = "creds.json" /\ g[2][1] = r}}

\* C19 as claimed: when the directory is read for the archive no save of a
\* creds.update emitted before the open outcome is in flight, and the archive of a
\* 200 response holds creds.json as written for the last such update or a later one.
C19_SavesFlushed ==
  \A r \in Reqs : Sent200(r) =>
    /\ stage[r].inflight = {}
    /\ stage[r].before >= 1 =>
         \E v \in OwnVersions(r, responses[r][1].body) : v >= stage[r].before

\* C19 as amended: the handler does not wait for saves.  The archive of a 200
\* response holds creds.json only as a completed write left it (the file that was
\* there before, or a version whose save has ended); it holds the last update
\* emitted before the open outcome, or a later one, if none of those saves was in
\* flight while the directory was read.
C19_FlushedOnly ==
  \A r \in Reqs : Sent200(r) =>
    /\ \A f \in responses[r][1].body : f[1] = "creds.json" =>
         \/ f[2] = <<0, 1>>
         \/ /\ f[2][1] = r
            /\ f[2][2] \in 1..stage[r].started
            /\ \A i \in 1..Len(saving[r]) : saving[r][i] > f[2][2]
    /\ stage[r].before >= 1 /\ stage[r].inflight = {} =>
         \E v \in OwnVersions(r, responses[r][1].body) : v >= stage[r].before

\* a 200 response whose archive holds the creds.json of before the request, while the
\* save of the update emitted before the open was in flight
C19_Witness ==
  /\ Sent200(1)
  /\ stage[1].before = 1 /\ stage[1].inflight = {1}
  /\ responses[1][1].body = {<<"creds.json", <<0, 1>>>>}
====
